---- MODULE Spec2Model ----
(***************************************************************************)
(* Wine-quality dashboard (src/app.py): the start-up pipeline              *)
(*   read_csv -> dropna -> drop_duplicates -> label -> train_test_split    *)
(*   -> LogisticRegression.fit/predict -> metrics -> ROC -> run_server     *)
(* followed by the two Dash callbacks update_correlation_plot and          *)
(* predict_quality, served concurrently on the fitted model.               *)
(*                                                                         *)
(* Cell values are tagged so that numbers, None/NaN and strings can be     *)
(* compared: [kind |-> "number" | "None" | "str", val |-> Int].            *)
(* Real-valued measurements are scaled to integers.                        *)
(***************************************************************************)
EXTENDS Integers, Sequences, FiniteSets, TLC

\* ------------------------------------------------------------------ bounds
MaxRows == 3
MaxInFlight == 2

\* ------------------------------------------------------- program constants
QualityThreshold == 6
TestSizeNum == 1
TestSizeDen == 5
RandomState == 42

\* ------------------------------------------------------------- cell values
Num(n) == [kind |-> "number", val |-> n]
None == [kind |-> "None", val |-> 0]
Str == [kind |-> "str", val |-> 0]
IsNumber(v) == v.kind = "number"

\* The header of data/winequality-red.csv, in file order.
Columns ==
    << "fixed acidity", "volatile acidity", "citric acid", "residual sugar",
       "chlorides", "free sulfur dioxide", "total sulfur dioxide", "density",
       "pH", "sulphates", "alcohol", "quality" >>

ColumnSet == { Columns[i] : i \in 1..Len(Columns) }

\* The component ids of the eleven dcc.Input fields, in State(...) order,
\* which is the order Dash passes them to predict_quality.
StateIds ==
    << "fixed_acidity", "volatile_acidity", "citric_acid", "residual_sugar",
       "chlorides", "free_sulfur_dioxide", "total_sulfur_dioxide", "density",
       "ph", "sulphates", "alcohol" >>

StateIdSet == { StateIds[i] : i \in 1..Len(StateIds) }

\* The layout labels each input with the measurement it stands for.
InputLabel ==
    [ fixed_acidity |-> "fixed acidity", volatile_acidity |-> "volatile acidity",
      citric_acid |-> "citric acid", residual_sugar |-> "residual sugar",
      chlorides |-> "chlorides", free_sulfur_dioxide |-> "free sulfur dioxide",
      total_sulfur_dioxide |-> "total sulfur dioxide", density |-> "density",
      ph |-> "pH", sulphates |-> "sulphates", alcohol |-> "alcohol" ]

\* ------------------------------------------------------------ the CSV file
\* A row of the file: one cell per column.
Row(vec, q) ==
    [ c \in ColumnSet |->
        IF c = "quality" THEN q
        ELSE vec[CHOOSE i \in 1..Len(Columns) : Columns[i] = c] ]

VecBad == << Num(7), Num(1), Num(0), Num(2), Num(1), Num(11), Num(34), Num(1), Num(3), Num(1), Num(9) >>
VecGood == << Num(8), Num(0), Num(1), Num(3), Num(2), Num(15), Num(40), Num(4), Num(5), Num(6), Num(12) >>
VecMissing == << Num(8), Num(0), Num(1), Num(3), Num(2), Num(15), Num(40), Num(4), None, Num(6), Num(12) >>

\* The rows the short files are made of: a bad wine (5), a good wine (6) and
\* a row with an empty pH cell.
RawRows ==
    { Row(VecBad, Num(5)), Row(VecGood, Num(6)), Row(VecMissing, Num(4)) }

SeqsUpTo(S, n) == UNION { [1..k -> S] : k \in 0..n }

\* Two longer files, so that the test subset holds two records: both hold
\* repeated rows and rows that differ in the raw score alone, the first an
\* empty cell as well.
SampleFiles ==
    { << Row(VecBad, Num(5)), Row(VecGood, Num(6)), Row(VecMissing, Num(4)),
         Row(VecGood, Num(7)), Row(VecBad, Num(5)), Row(VecBad, Num(3)),
         Row(VecGood, Num(8)) >>,
      << Row(VecGood, Num(6)), Row(VecGood, Num(6)), Row(VecBad, Num(5)),
         Row(VecBad, Num(4)), Row(VecGood, Num(7)), Row(VecBad, Num(5)),
         Row(VecGood, Num(6)) >> }

\* The file is absent, or holds a header and rows.
NoFile == [exists |-> FALSE, rows |-> << >>]
Files ==
    { NoFile } \cup
    { [exists |-> TRUE, rows |-> rows] : rows \in SeqsUpTo(RawRows, MaxRows) \cup SampleFiles }

\* -------------------------------------------------------------------- state
VARIABLES
    pc,            \* the cell of the script about to run, "serving" or "failed"
    file,          \* data/winequality-red.csv as found on disk
    data,          \* the DataFrame `data`
    split,         \* the positions of `data` in the train and test subsets
    logreg_model,  \* the classifier: unfitted, or its coef_ and intercept_
    y_pred,        \* predictions on X_test
    report,        \* confusion matrix and metrics
    error,         \* the exception that ended start-up, if any
    plot_requests,     \* update_correlation_plot calls in flight
    predict_requests,  \* predict_quality calls in flight
    published      \* data and model as they were when run_server started

vars == << pc, file, data, split, logreg_model, y_pred, report, error,
           plot_requests, predict_requests, published >>

NoData == << >>
NoSplit == [train |-> << >>, test |-> << >>]
Unfitted == [fitted |-> FALSE, coef |-> << >>, intercept |-> 0]
NoReport == [done |-> FALSE]
NoError == "none"

Init ==
    /\ pc = "load"
    /\ file \in Files
    /\ data = NoData
    /\ split = NoSplit
    /\ logreg_model = Unfitted
    /\ y_pred = << >>
    /\ report = NoReport
    /\ error = NoError
    /\ plot_requests = {}
    /\ predict_requests = {}
    /\ published = [data |-> NoData, model |-> Unfitted]

\* An uncaught exception in a cell ends the process with a non-zero status.
Raise(e) ==
    /\ pc' = "failed"
    /\ error' = e

\* ---------------------------------------------------------------- helpers
RECURSIVE Sum(_, _)
Sum(f, S) ==
    IF S = {} THEN 0
    ELSE LET x == CHOOSE y \in S : TRUE IN f[x] + Sum(f, S \ {x})

\* The positions of S in ascending order.
RECURSIVE Ascending(_)
Ascending(S) ==
    IF S = {} THEN << >>
    ELSE LET m == CHOOSE x \in S : \A y \in S : x <= y
         IN << m >> \o Ascending(S \ {m})

\* Positional indexing (DataFrame.iloc) by a sequence of positions.
Take(df, positions) == [ k \in 1..Len(positions) |-> df[positions[k]] ]

Range(s) == { s[i] : i \in 1..Len(s) }

\* ------------------------------------------------------- pandas operations
\* DataFrame.dropna: the rows without an empty cell.
dropna(df) == SelectSeq(df, LAMBDA r : \A c \in ColumnSet : r[c] # None)

\* DataFrame.drop_duplicates(keep='first'): a NEW frame holding the rows
\* that equal no earlier row.
drop_duplicates(df) ==
    Take(df, Ascending({ i \in 1..Len(df) : \A j \in 1..(i - 1) : df[j] # df[i] }))

\* Variant of label: a strict comparison, which labels a score of 6 bad.
label_strict(x) == IF x > QualityThreshold THEN 1 ELSE 0

\* lambda x: 1 if x >= 6.0 else 0
label(x) == IF x >= QualityThreshold THEN 1 ELSE 0

\* Variant of XColumns: the target column is not dropped from X.
XColumnsWithQuality == Columns

\* X = data.drop('quality', axis=1): the remaining columns, in file order.
XColumns == SelectSeq(Columns, LAMBDA c : c # "quality")
XRow(r) == [ i \in 1..Len(XColumns) |-> r[XColumns[i]] ]

\* ------------------------------------------------------- train_test_split
\* numpy.random.RandomState(42).permutation(n) for n = 1..10 (0-based, as
\* numpy returns it): MT19937 seeded by init_genrand(42), Fisher-Yates from
\* the last position down, each draw masked and rejected above the bound.
Permutation42 ==
    << << 0 >>,
       << 1, 0 >>,
       << 0, 1, 2 >>,
       << 1, 3, 0, 2 >>,
       << 1, 4, 2, 0, 3 >>,
       << 0, 1, 5, 2, 4, 3 >>,
       << 0, 1, 5, 2, 4, 3, 6 >>,
       << 1, 5, 0, 7, 2, 4, 3, 6 >>,
       << 7, 1, 5, 0, 8, 2, 4, 3, 6 >>,
       << 8, 1, 5, 0, 7, 2, 9, 4, 3, 6 >> >>

\* The stream of any other seed is not tabulated: a rotation by the seed
\* stands for "some other permutation".
permutation(n, seed) ==
    IF seed = RandomState
    THEN [ i \in 1..n |-> Permutation42[n][i] + 1 ]
    ELSE [ i \in 1..n |-> ((i - 1 + seed) % n) + 1 ]

\* What the operating system seeds an unseeded generator with.
Entropy == { 0, 1, 2 }

\* check_random_state: a fresh generator from the seed, or from OS entropy
\* when random_state is None.
check_random_state(random_state, entropy) ==
    IF random_state = None THEN entropy ELSE random_state.val

\* _validate_shuffle_split: n_test = ceil(test_size * n), n_train = n - n_test.
n_test_of(n) == (n * TestSizeNum + TestSizeDen - 1) \div TestSizeDen

\* Variant of train_test_split: random_state is not passed on, so the
\* generator is seeded from the operating system.
train_test_split_unseeded(n, random_state, entropy) ==
    LET n_test == n_test_of(n)
        n_train == n - n_test
        perm == permutation(n, check_random_state(None, entropy))
    IN  IF n_train <= 0
        THEN [ok |-> FALSE, train |-> << >>, test |-> << >>]
        ELSE [ok |-> TRUE,
              train |-> SubSeq(perm, n_test + 1, n),
              test |-> SubSeq(perm, 1, n_test)]

\* train_test_split(X, y, test_size=0.20, random_state=42) on n rows:
\* ValueError when the train subset would be empty, else the first n_test
\* positions of the permutation are the test subset and the rest the train
\* subset.
train_test_split(n, random_state, entropy) ==
    LET n_test == n_test_of(n)
        n_train == n - n_test
        perm == permutation(n, check_random_state(random_state, entropy))
    IN  IF n_train <= 0
        THEN [ok |-> FALSE, train |-> << >>, test |-> << >>]
        ELSE [ok |-> TRUE,
              train |-> SubSeq(perm, n_test + 1, n),
              test |-> SubSeq(perm, 1, n_test)]

X_train == Take([ i \in 1..Len(data) |-> XRow(data[i]) ], split.train)
X_test == Take([ i \in 1..Len(data) |-> XRow(data[i]) ], split.test)
y_train == Take([ i \in 1..Len(data) |-> data[i]["quality"].val ], split.train)
y_test == Take([ i \in 1..Len(data) |-> data[i]["quality"].val ], split.test)

\* ----------------------------------------------------- LogisticRegression
Dot(w, x) == Sum([ i \in 1..Len(w) |-> w[i] * x[i].val ], 1..Len(w))

\* Variant of check_array: nothing is rejected, so None and strings are
\* scored as 0.
check_array_coercing(x) == TRUE

\* check_array, as predict applies it to its input: a None cell becomes NaN
\* and is rejected, a string is rejected; numbers pass.
check_array(x) == \A i \in 1..Len(x) : IsNumber(x[i])

decision_function(model, x) == Dot(model.coef, x) + model.intercept

\* predict: class 1 when the decision score is positive (probability > 0.5).
predict(model, x) == IF decision_function(model, x) > 0 THEN 1 ELSE 0

\* The optimiser (lbfgs) is not computed: fit may end with any of these
\* coefficient vectors. The first calls a wine good when alcohol exceeds 10,
\* the second calls none of the wines above good.
FitOutcomes ==
    { [fitted |-> TRUE, coef |-> << 0, 0, 0, 0, 0, 0, 0, 0, 0, 0, 1 >>, intercept |-> -10],
      [fitted |-> TRUE, coef |-> << 0, -1, 0, 0, 0, 0, 0, 0, 0, 0, 1 >>, intercept |-> -20] }

\* ------------------------------------------------------------------ metrics
NaN == [num |-> 0, den |-> 0]
Zero == [num |-> 0, den |-> 1]

\* Variant of prf_divide: zero_division=np.nan.
prf_divide_nan(num, den) == IF den = 0 THEN NaN ELSE [num |-> num, den |-> den]

\* sklearn's _prf_divide with the default zero_division="warn": a zero
\* denominator gives 0.0 and a warning.
prf_divide(num, den) == IF den = 0 THEN Zero ELSE [num |-> num, den |-> den]

Count(yt, yp, t, p) == Cardinality({ i \in 1..Len(yt) : yt[i] = t /\ yp[i] = p })

\* confusion_matrix: one row and column per label present in y_true or y_pred.
confusion_matrix(yt, yp) ==
    LET labels == Range(yt) \cup Range(yp)
    IN  [ tp \in labels \X labels |-> Count(yt, yp, tp[1], tp[2]) ]

accuracy_score(yt, yp) ==
    [num |-> Cardinality({ i \in 1..Len(yt) : yt[i] = yp[i] }), den |-> Len(yt)]

precision_score(yt, yp) ==
    prf_divide(Count(yt, yp, 1, 1), Count(yt, yp, 1, 1) + Count(yt, yp, 0, 1))

recall_score(yt, yp) ==
    prf_divide(Count(yt, yp, 1, 1), Count(yt, yp, 1, 1) + Count(yt, yp, 1, 0))

f1_score(yt, yp) ==
    prf_divide(2 * Count(yt, yp, 1, 1),
               2 * Count(yt, yp, 1, 1) + Count(yt, yp, 0, 1) + Count(yt, yp, 1, 0))

\* ----------------------------------------------------- the start-up script
UnchangedRequests == UNCHANGED << plot_requests, predict_requests, published >>

\* data = pd.read_csv("data/winequality-red.csv")
Load ==
    /\ pc = "load"
    /\ IF ~file.exists
       THEN /\ Raise("FileNotFoundError")
            /\ UNCHANGED data
       ELSE /\ data' = file.rows
            /\ pc' = "dropna"
            /\ UNCHANGED error
    /\ UNCHANGED << file, split, logreg_model, y_pred, report >>
    /\ UnchangedRequests

\* data.dropna(inplace=True)
DropNa ==
    /\ pc = "dropna"
    /\ data' = dropna(data)
    /\ pc' = "drop_duplicates"
    /\ UNCHANGED << file, split, logreg_model, y_pred, report, error >>
    /\ UnchangedRequests

\* data.drop_duplicates(keep='first'): not in place, and the frame it
\* returns is not assigned, so `data` keeps every row.
DropDuplicates ==
    /\ pc = "drop_duplicates"
    /\ LET returned == drop_duplicates(data)
       IN  data' = data
    /\ pc' = "label"
    /\ UNCHANGED << file, split, logreg_model, y_pred, report, error >>
    /\ UnchangedRequests

\* data['quality'] = data['quality'].apply(lambda x: 1 if x >= 6.0 else 0)
Label ==
    /\ pc = "label"
    /\ data' = [ i \in 1..Len(data) |->
                 [ data[i] EXCEPT !["quality"] = Num(label(data[i]["quality"].val)) ] ]
    /\ pc' = "split"
    /\ UNCHANGED << file, split, logreg_model, y_pred, report, error >>
    /\ UnchangedRequests

\* X_train, X_test, y_train, y_test = train_test_split(X, y, test_size=0.20,
\*                                                     random_state=42)
Split ==
    /\ pc = "split"
    /\ \E entropy \in Entropy :
         LET r == train_test_split(Len(data), Num(RandomState), entropy)
         IN  IF r.ok
             THEN /\ split' = [train |-> r.train, test |-> r.test]
                  /\ pc' = "fit"
                  /\ UNCHANGED error
             ELSE /\ Raise("ValueError: the resulting train set will be empty")
                  /\ UNCHANGED split
    /\ UNCHANGED << file, data, logreg_model, y_pred, report >>
    /\ UnchangedRequests

\* Variant of Fit: the ValueError of fit is swallowed and the script goes
\* on with the unfitted classifier.
FitIgnoringFailure ==
    /\ pc = "fit"
    /\ IF Cardinality(Range(y_train)) < 2
       THEN /\ logreg_model' = Unfitted
            /\ y_pred' = [ i \in 1..Len(X_test) |-> 0 ]
       ELSE \E m \in FitOutcomes :
                 /\ logreg_model' = m
                 /\ y_pred' = [ i \in 1..Len(X_test) |-> predict(m, X_test[i]) ]
    /\ pc' = "evaluate"
    /\ UNCHANGED << file, data, split, report, error >>
    /\ UnchangedRequests

\* logreg_model = LogisticRegression(); logreg_model.fit(X_train, y_train)
\* y_pred = logreg_model.predict(X_test)
\* fit raises ValueError when y_train holds a single class.
Fit ==
    /\ pc = "fit"
    /\ IF Cardinality(Range(y_train)) < 2
       THEN /\ Raise("ValueError: needs samples of at least 2 classes")
            /\ UNCHANGED << logreg_model, y_pred >>
       ELSE /\ \E m \in FitOutcomes :
                 /\ logreg_model' = m
                 /\ y_pred' = [ i \in 1..Len(X_test) |-> predict(m, X_test[i]) ]
            /\ pc' = "evaluate"
            /\ UNCHANGED error
    /\ UNCHANGED << file, data, split, report >>
    /\ UnchangedRequests

\* confusion_mat, accuracy, precision, recall, f1
Evaluate ==
    /\ pc = "evaluate"
    /\ report' = [ done |-> TRUE,
                   confusion_mat |-> confusion_matrix(y_test, y_pred),
                   accuracy |-> accuracy_score(y_test, y_pred),
                   precision |-> precision_score(y_test, y_pred),
                   recall |-> recall_score(y_test, y_pred),
                   f1 |-> f1_score(y_test, y_pred) ]
    /\ pc' = "roc"
    /\ UNCHANGED << file, data, split, logreg_model, y_pred, error >>
    /\ UnchangedRequests

\* roc_curve(y_test, y_pred); roc_auc_score(y_test, y_pred). With a single
\* class in y_test the AUC is undefined: older scikit-learn releases
\* raise ValueError in roc_auc_score, newer ones return NaN with a warning.
Roc ==
    /\ pc = "roc"
    /\ \/ /\ pc' = "run_server"
          /\ Cardinality(Range(y_test)) = 2
          /\ UNCHANGED error
       \/ /\ pc' = "run_server"
          /\ Cardinality(Range(y_test)) < 2
          /\ UNCHANGED error
       \/ /\ Cardinality(Range(y_test)) < 2
          /\ Raise("ValueError: only one class present in y_true")
    /\ UNCHANGED << file, data, split, logreg_model, y_pred, report >>
    /\ UnchangedRequests

\* app = dash.Dash(...); app.layout = ...; app.run_server(debug=False)
RunServer ==
    /\ pc = "run_server"
    /\ pc' = "serving"
    /\ published' = [data |-> data, model |-> logreg_model]
    /\ UNCHANGED << file, data, split, logreg_model, y_pred, report, error,
                    plot_requests, predict_requests >>

\* ------------------------------------------------------------ the callbacks
Ok == "200 OK"
InternalServerError == "500 Internal Server Error"

GoodQuality == "This wine is predicted to be good quality."
BadQuality == "This wine is predicted to be bad quality."
\* The exceptions the two callbacks can end with; Dash answers the request
\* with status 500 and keeps serving.
InvalidInputError == "ValueError: Input X contains NaN or is not numeric"
UnknownFeatureError == "ValueError: Value is not the name of a column in 'data_frame'"

Pending == [status |-> "pending", body |-> ""]

\* What the browser holds in the eleven inputs, keyed by component id.
FormOf(vec) ==
    [ id \in StateIdSet |->
        vec[CHOOSE i \in 1..Len(Columns) : Columns[i] = InputLabel[id]] ]

NoValues == [ id \in StateIdSet |-> None ]

Forms ==
    { FormOf(VecGood), FormOf(VecBad),
      [ FormOf(VecGood) EXCEPT !["alcohol"] = None ],
      [ FormOf(VecGood) EXCEPT !["ph"] = Str ],
      [ FormOf(VecBad) EXCEPT !["fixed_acidity"] = None ] }

\* The feature pairs a correlation request may carry: dropdown options, and
\* a name no dropdown offers (a hand-made request).
FeaturePairs ==
    { << "alcohol", "quality" >>, << "quality", "alcohol" >>,
      << "bogus_feature", "alcohol" >>, << "alcohol", "bogus_feature" >> }

InFlight == Cardinality(plot_requests) + Cardinality(predict_requests)

\* Variant of predict_quality: two parameters change places in the array.
predict_quality_misordered(n_clicks, fixed_acidity, volatile_acidity, citric_acid, residual_sugar, chlorides, free_sulfur_dioxide, total_sulfur_dioxide, density, ph, sulphates, alcohol) ==
    LET input_features ==
            << fixed_acidity, volatile_acidity, citric_acid, residual_sugar,
               chlorides, free_sulfur_dioxide, total_sulfur_dioxide, density,
               ph, alcohol, sulphates >>
    IN  IF ~check_array(input_features)
        THEN [status |-> InternalServerError, body |-> InvalidInputError,
              input_features |-> input_features, predict_calls |-> 1, scored |-> FALSE]
        ELSE [status |-> Ok,
              body |-> IF predict(logreg_model, input_features) = 1
                       THEN GoodQuality ELSE BadQuality,
              input_features |-> input_features, predict_calls |-> 1, scored |-> TRUE]

\* def predict_quality(n_clicks, fixed_acidity, ..., alcohol): the array is
\* built from the parameters in this order and handed to predict once;
\* predict validates it (ValueError) before scoring it. `scored` records
\* whether the classifier computed a class for the array.
predict_quality(n_clicks, fixed_acidity, volatile_acidity, citric_acid, residual_sugar, chlorides, free_sulfur_dioxide, total_sulfur_dioxide, density, ph, sulphates, alcohol) ==
    LET input_features ==
            << fixed_acidity, volatile_acidity, citric_acid, residual_sugar,
               chlorides, free_sulfur_dioxide, total_sulfur_dioxide, density,
               ph, sulphates, alcohol >>
    IN  IF ~check_array(input_features)
        THEN [status |-> InternalServerError, body |-> InvalidInputError,
              input_features |-> input_features, predict_calls |-> 1, scored |-> FALSE]
        ELSE [status |-> Ok,
              body |-> IF predict(logreg_model, input_features) = 1
                       THEN GoodQuality ELSE BadQuality,
              input_features |-> input_features, predict_calls |-> 1, scored |-> TRUE]

\* Variant of update_correlation_plot: an unknown name gives an empty
\* figure instead of an error.
update_correlation_plot_unchecked(x_feature, y_feature) ==
    IF x_feature \notin ColumnSet \/ y_feature \notin ColumnSet
    THEN [status |-> Ok, body |-> "figure", points |-> << >>]
    ELSE [status |-> Ok, body |-> "figure",
          points |-> [ i \in 1..Len(data) |->
                        << data[i][x_feature], data[i][y_feature], data[i]["quality"] >> ]]

\* px.scatter(data, x=x_feature, y=y_feature, color='quality'): ValueError
\* when a name is not a column, else one point per row of `data`.
update_correlation_plot(x_feature, y_feature) ==
    IF x_feature \notin ColumnSet \/ y_feature \notin ColumnSet
    THEN [status |-> InternalServerError, body |-> UnknownFeatureError, points |-> << >>]
    ELSE [status |-> Ok, body |-> "figure",
          points |-> [ i \in 1..Len(data) |->
                        << data[i][x_feature], data[i][y_feature], data[i]["quality"] >> ]]

UnchangedPipeline == UNCHANGED << pc, file, data, split, logreg_model, y_pred, report, error, published >>

\* The browser loads the page: Dash fires both callbacks with the layout's
\* initial values (the first two columns; n_clicks=0 and empty inputs).
PageLoad ==
    /\ pc = "serving"
    /\ plot_requests' = plot_requests \cup
          { [x_feature |-> Columns[1], y_feature |-> Columns[2], response |-> Pending] }
    /\ predict_requests' = predict_requests \cup
          { [n_clicks |-> 0, values |-> NoValues, response |-> Pending, input_features |-> << >>,
              predict_calls |-> 0, scored |-> FALSE] }
    /\ Cardinality(plot_requests') + Cardinality(predict_requests') <= MaxInFlight
    /\ UnchangedPipeline

\* A dropdown changes, or a request names two features directly.
SelectFeatures ==
    /\ pc = "serving"
    /\ InFlight < MaxInFlight
    /\ \E xy \in FeaturePairs :
         plot_requests' = plot_requests \cup
            { [x_feature |-> xy[1], y_feature |-> xy[2], response |-> Pending] }
    /\ UNCHANGED predict_requests
    /\ UnchangedPipeline

\* The Predict button is clicked with whatever the inputs hold.
Click ==
    /\ pc = "serving"
    /\ InFlight < MaxInFlight
    /\ \E form \in Forms :
         predict_requests' = predict_requests \cup
            { [n_clicks |-> 1, values |-> form, response |-> Pending, input_features |-> << >>,
              predict_calls |-> 0, scored |-> FALSE] }
    /\ UNCHANGED plot_requests
    /\ UnchangedPipeline

\* A worker thread runs update_correlation_plot for a request.
PlotCallback ==
    /\ pc = "serving"
    /\ \E r \in plot_requests :
         /\ r.response = Pending
         /\ LET out == update_correlation_plot(r.x_feature, r.y_feature)
            IN  plot_requests' = (plot_requests \ {r}) \cup { [ r EXCEPT !.response = out ] }
    /\ UNCHANGED predict_requests
    /\ UnchangedPipeline

\* Variant of PredictCallback: the callback fits the shared classifier
\* again before it predicts.
PredictCallbackRefitting ==
    /\ pc = "serving"
    /\ \E r \in predict_requests :
         /\ r.response = Pending
         /\ \E m \in FitOutcomes : logreg_model' = m
         /\ predict_requests' = (predict_requests \ {r}) \cup
               { [ r EXCEPT !.response = [status |-> Ok, body |-> BadQuality],
                            !.predict_calls = 1 ] }
    /\ UNCHANGED << pc, file, data, split, y_pred, report, error, published, plot_requests >>

\* A worker thread runs predict_quality for a request; Dash passes the State
\* values in the order the decorator lists them.
PredictCallback ==
    /\ pc = "serving"
    /\ \E r \in predict_requests :
         /\ r.response = Pending
         /\ LET v == [ i \in 1..Len(StateIds) |-> r.values[StateIds[i]] ]
                out == predict_quality(r.n_clicks, v[1], v[2], v[3], v[4], v[5], v[6],
                                       v[7], v[8], v[9], v[10], v[11])
            IN  predict_requests' = (predict_requests \ {r}) \cup
                   { [ r EXCEPT !.response = [status |-> out.status, body |-> out.body],
                                !.input_features = out.input_features,
                                !.predict_calls = out.predict_calls,
                                !.scored = out.scored ] }
    /\ UNCHANGED plot_requests
    /\ UnchangedPipeline

\* An answered request leaves the server.
Respond ==
    /\ pc = "serving"
    /\ \/ /\ \E r \in plot_requests :
               /\ r.response # Pending
               /\ plot_requests' = plot_requests \ {r}
          /\ UNCHANGED predict_requests
       \/ /\ \E r \in predict_requests :
               /\ r.response # Pending
               /\ predict_requests' = predict_requests \ {r}
          /\ UNCHANGED plot_requests
    /\ UnchangedPipeline

Next ==
    \/ Load
    \/ DropNa
    \/ DropDuplicates
    \/ Label
    \/ Split
    \/ Fit
    \/ Evaluate
    \/ Roc
    \/ RunServer
    \/ PageLoad
    \/ SelectFeatures
    \/ Click
    \/ PlotCallback
    \/ PredictCallback
    \/ Respond

Spec == Init /\ [][Next]_vars

\* ---------------------------------------------------------------------- properties
Ready == pc = "serving"
ServiceState == IF Ready THEN "Ready" ELSE "Unavailable"

\* The rows of the file that survive dropna, with their raw quality scores;
\* `data` keeps their positions through the rest of the script.
RawRecords == dropna(file.rows)

IsBinaryLabelOf(v, q) ==
    \/ q >= QualityThreshold /\ v = 1
    \/ q < QualityThreshold /\ v = 0

AfterCleaning == pc \in { "label", "split", "fit", "evaluate", "roc", "run_server", "serving" }
AfterLabel == pc \in { "split", "fit", "evaluate", "roc", "run_server", "serving" }
SplitError == "ValueError: the resulting train set will be empty"
SplitRan ==
    \/ pc \in { "fit", "evaluate", "roc", "run_server", "serving" }
    \/ pc = "failed" /\ error \in { SplitError, "ValueError: needs samples of at least 2 classes",
                                     "ValueError: only one class present in y_true" }

Answered(r) == r.response # Pending
AllNumeric(values) == \A id \in StateIdSet : IsNumber(values[id])

\* ---------------------------------------------------------------------- C1
ReadyOnlyAfterPipeline ==
    /\ ServiceState \in { "Ready", "Unavailable" }
    /\ error # NoError => ~Ready
    /\ Ready =>
         /\ file.exists
         /\ Len(data) = Len(RawRecords)
         /\ \A i \in 1..Len(data) : data[i]["quality"].val \in { 0, 1 }
         /\ Len(split.train) > 0 /\ Len(split.test) > 0
         /\ logreg_model.fitted
         /\ Len(y_pred) = Len(split.test)
         /\ report.done

\* C1: the service is Unavailable or Ready; it is Ready only with the file
\* loaded, cleaned, labelled and split, the classifier fitted and the report
\* computed, and never after a start-up failure; once Ready it stays Ready
\* and the model is never fitted again; a failed start-up stays failed.
C1_ReadyAfterFitAndTerminal ==
    /\ []ReadyOnlyAfterPipeline
    /\ [][Ready => (Ready' /\ logreg_model' = logreg_model)]_vars
    /\ [][pc = "failed" => pc' = "failed"]_vars

C1_Witness ==
    /\ Ready
    /\ \E r \in predict_requests : r.response.status = Ok

\* ---------------------------------------------------------------------- C2
\* C2: every answered prediction request with a missing or non-numeric
\* value ended with the input error: no class was computed for its array,
\* neither prediction string was returned, and the model is the published
\* one. This includes the call Dash fires on page load (n_clicks = 0).
C2_InvalidInputRejected ==
    \A r \in predict_requests :
        (Answered(r) /\ ~AllNumeric(r.values)) =>
            /\ r.response.status = InternalServerError
            /\ r.response.body = InvalidInputError
            /\ r.response.body \notin { GoodQuality, BadQuality }
            /\ ~r.scored
            /\ logreg_model = published.model

C2_Witness ==
    /\ \E r \in predict_requests :
          /\ r.n_clicks = 0 /\ r.values = NoValues
          /\ r.response.status = InternalServerError
    /\ \E r \in predict_requests :
          /\ r.values = [ FormOf(VecGood) EXCEPT !["alcohol"] = None ]
          /\ r.response.status = InternalServerError

C4_NoMissingNoDuplicates ==
    AfterCleaning =>
        /\ \A i \in 1..Len(data) : \A c \in ColumnSet : data[i][c] # None
        /\ \A i \in 1..Len(data) : \A j \in 1..Len(data) : i # j => data[i] # data[j]
        /\ pc = "label" => data = drop_duplicates(dropna(file.rows))

\* ---------------------------------------------------------------------- C5
\* C5: while the service is Ready, whatever requests have been received,
\* answered or are in flight, the model and the dataset are the ones held
\* when the service became Ready.
C5_RequestsMutateNothing ==
    Ready =>
        /\ logreg_model = published.model
        /\ data = published.data

C5_Witness ==
    /\ Ready
    /\ \E r \in plot_requests : r.response.status = Ok /\ Len(r.response.points) > 0
    /\ \E r \in predict_requests : r.response.status = InternalServerError

\* ---------------------------------------------------------------------- C6
\* The feature vectors given to fit and to predict hold the eleven
\* measurements and not the quality column.
QualityExcludedFromFeatures ==
    /\ "quality" \notin Range(XColumns)
    /\ LET fitted_on == X_train
       IN  \A k \in 1..Len(fitted_on) :
             /\ Len(fitted_on[k]) = Len(StateIds)
             /\ \A j \in 1..Len(fitted_on[k]) :
                   \E c \in ColumnSet \ { "quality" } :
                       fitted_on[k][j] = data[split.train[k]][c]
    /\ LET tested_on == X_test
       IN  \A k \in 1..Len(tested_on) : Len(tested_on[k]) = Len(StateIds)
    /\ \A r \in predict_requests :
          Answered(r) => Len(r.input_features) = Len(StateIds)

\* C6 as the spec states it: the service's Dataset keeps every record's raw
\* quality score, a projection on "quality" returns it, and it is not part
\* of the feature vectors.
C6_RawQualityRetained ==
    Ready =>
        LET raw == RawRecords
        IN  /\ \A i \in 1..Len(data) : data[i]["quality"] = raw[i]["quality"]
            /\ \A r \in plot_requests :
                  (r.response.status = Ok /\ r.x_feature = "quality") =>
                      \A i \in 1..Len(data) : r.response.points[i][1] = raw[i]["quality"]
            /\ QualityExcludedFromFeatures

\* C6 amended: the service's Dataset holds the binary label in the quality
\* column in place of the raw score, a projection on "quality" returns that
\* label as the x or y value, and the quality column is not part of the
\* feature vectors given to fit and predict.
C6_QualityColumnHoldsLabel ==
    Ready =>
        LET raw == RawRecords
        IN  /\ \A i \in 1..Len(data) :
                  IsBinaryLabelOf(data[i]["quality"].val, raw[i]["quality"].val)
            /\ \A r \in plot_requests :
                  r.response.status = Ok =>
                      \A i \in 1..Len(data) :
                          /\ r.x_feature = "quality" =>
                                IsBinaryLabelOf(r.response.points[i][1].val, raw[i]["quality"].val)
                          /\ r.y_feature = "quality" =>
                                IsBinaryLabelOf(r.response.points[i][2].val, raw[i]["quality"].val)
            /\ QualityExcludedFromFeatures

C6_Witness ==
    /\ Ready
    /\ LET raw == RawRecords
       IN  \E i \in 1..Len(data) : raw[i]["quality"] = Num(7) /\ data[i]["quality"] = Num(1)
    /\ \E r \in plot_requests : r.response.status = Ok /\ r.x_feature = "quality"
    /\ \E r \in predict_requests : r.scored

\* ---------------------------------------------------------------------- C7
\* C7: once labelled, every record's label is 1 if its raw quality score is
\* at least 6 and 0 otherwise.
C7_LabelIffAtLeastSix ==
    AfterLabel =>
        LET raw == RawRecords
        IN  /\ Len(data) = Len(raw)
            /\ \A i \in 1..Len(data) :
                  /\ data[i]["quality"].val = 1 <=> raw[i]["quality"].val >= 6
                  /\ data[i]["quality"].val = 0 <=> raw[i]["quality"].val < 6

C7_Witness ==
    /\ pc = "split"
    /\ LET raw == RawRecords
       IN  /\ \E i \in 1..Len(data) : raw[i]["quality"] = Num(6) /\ data[i]["quality"] = Num(1)
           /\ \E i \in 1..Len(data) : raw[i]["quality"] = Num(5) /\ data[i]["quality"] = Num(0)

\* ---------------------------------------------------------------------- C8
IsPartition ==
    /\ Range(split.train) \cap Range(split.test) = {}
    /\ Range(split.train) \cup Range(split.test) = 1..Len(data)
    /\ Len(split.train) + Len(split.test) = Len(data)

\* |test| is within one record of 0.20 * |Dataset|.
TestFractionWithinOne ==
    /\ TestSizeDen * Len(split.test) - TestSizeNum * Len(data) < TestSizeDen
    /\ TestSizeNum * Len(data) - TestSizeDen * Len(split.test) < TestSizeDen

\* The same (Dataset, fraction, seed) gives the same subsets whatever the
\* generator of the process would have been seeded with.
SplitReproducible ==
    \A e \in Entropy :
        LET again == train_test_split(Len(data), Num(RandomState), e)
        IN  again.ok /\ again.train = split.train /\ again.test = split.test

\* C8 as the spec states it: for every Dataset the split step yields a
\* disjoint, covering, reproducible pair with 0.20 of the records in test.
C8_SplitEveryDataset ==
    SplitRan => (IsPartition /\ TestFractionWithinOne /\ SplitReproducible)

\* C8 amended: for every Dataset of at least two records the split yields
\* such a pair; for a Dataset of fewer than two records the split raises
\* ValueError (the train subset would be empty) and start-up ends.
C8_SplitOfTwoOrMore ==
    SplitRan =>
        /\ Len(data) >= 2 => (IsPartition /\ TestFractionWithinOne /\ SplitReproducible)
        /\ Len(data) < 2 => (pc = "failed" /\ error = SplitError /\ split = NoSplit)

C8_Witness ==
    /\ pc = "fit"
    /\ Len(split.test) = 2
    /\ Len(split.train) = 4

\* ---------------------------------------------------------------------- C9
\* The component id whose input stands for column c.
InputOf(c) == CHOOSE id \in StateIdSet : InputLabel[id] = c

\* The decision score of the held model on the request's values, taken
\* column by column in the order of X at fit.
CanonicalScore(values) ==
    Sum([ i \in 1..Len(StateIds) |-> logreg_model.coef[i] * values[InputOf(Columns[i])].val ],
        1..Len(StateIds)) + logreg_model.intercept

\* C9: every answered prediction request with eleven numbers had its array
\* built in the column order used at fit, was passed to predict once, and
\* was answered with the good-quality string when the model's class is 1
\* and the bad-quality string when it is 0.
C9_PredictionResponse ==
    \A r \in predict_requests :
        (Answered(r) /\ AllNumeric(r.values)) =>
            /\ Len(r.input_features) = Len(XColumns)
            /\ \A i \in 1..Len(XColumns) :
                  r.input_features[i] = r.values[InputOf(XColumns[i])]
            /\ r.predict_calls = 1
            /\ r.scored
            /\ r.response.status = Ok
            /\ r.response.body \in { GoodQuality, BadQuality }
            /\ r.response.body = GoodQuality <=> CanonicalScore(r.values) > 0

C9_Witness ==
    /\ \E r \in predict_requests :
          r.values = FormOf(VecGood) /\ r.response.body = GoodQuality
    /\ \E r \in predict_requests :
          r.values = FormOf(VecBad) /\ r.response.body = BadQuality

\* --------------------------------------------------------------------- C10
\* The counts of (true label, predicted label) over the test subset:
\* << TP, FP, FN, TN >>.
Outcomes ==
    LET yt == y_test
    IN  << Count(yt, y_pred, 1, 1), Count(yt, y_pred, 0, 1),
           Count(yt, y_pred, 1, 0), Count(yt, y_pred, 0, 0) >>

IsNaN(m) == m.den = 0
IsZeroValue(m) == m.den > 0 /\ m.num = 0

ConfusionCountsSumToTest ==
    Sum(report.confusion_mat, DOMAIN report.confusion_mat) = Len(split.test)

\* C10 as the spec states it: with no positive predictions or no positive
\* labels in the test subset, precision, recall and F1 are NaN, nothing is
\* raised, and the confusion-matrix counts sum to the size of the test subset.
C10_UndefinedMetricsAreNaN ==
    report.done =>
        LET o == Outcomes
            TP == o[1]
            FP == o[2]
            FN == o[3]
        IN  /\ TP + FP = 0 => IsNaN(report.precision)
            /\ TP + FN = 0 => IsNaN(report.recall)
            /\ (TP + FP = 0 /\ TP + FN = 0) => IsNaN(report.f1)
            /\ ConfusionCountsSumToTest

\* C10 amended: the metric computation never raises on a zero denominator;
\* with no positive predictions (TP+FP = 0) precision is 0.0, with no
\* positive labels (TP+FN = 0) recall is 0.0, in both cases F1 is 0.0, not
\* NaN; otherwise they are the usual quotients; and the confusion-matrix
\* counts sum to the size of the test subset.
C10_UndefinedMetricsAreZero ==
    /\ pc = "roc" => report.done
    /\ report.done =>
        LET o == Outcomes
            TP == o[1]
            FP == o[2]
            FN == o[3]
            TN == o[4]
        IN  /\ TP + FP = 0 => IsZeroValue(report.precision)
            /\ TP + FN = 0 => IsZeroValue(report.recall)
            /\ (TP + FP = 0 \/ TP + FN = 0) => IsZeroValue(report.f1)
            /\ TP + FP > 0 => report.precision = [num |-> TP, den |-> TP + FP]
            /\ TP + FN > 0 => report.recall = [num |-> TP, den |-> TP + FN]
            /\ ~IsNaN(report.accuracy) /\ ~IsNaN(report.precision)
            /\ ~IsNaN(report.recall) /\ ~IsNaN(report.f1)
            /\ TP + FP + FN + TN = Len(split.test)
            /\ ConfusionCountsSumToTest

C10_Witness ==
    /\ pc = "roc"
    /\ report.done
    /\ Outcomes[1] + Outcomes[2] = 0
    /\ Outcomes[1] + Outcomes[3] = 0
    /\ IsZeroValue(report.precision) /\ IsZeroValue(report.recall)

====
